---- MODULE Spec2Model ----
(***************************************************************************)
(* Model of the WebArchive page-capture pipeline                           *)
(* (backend/internal/processor/processor.go): Processor.Process walks the  *)
(* parsed document, handleURL / handleSrcset resolve each reference,       *)
(* downloadAndStore fetches and stores it through the per-call cache, and  *)
(* rewriteCSS rewrites the references of a fetched stylesheet.             *)
(*                                                                         *)
(* Strings are sequences of tokens: a whitespace token, a comma token, or  *)
(* an atom (a run of characters holding neither).  An atom that is a URL   *)
(* reference carries its scheme, host and path; a path is a tuple of       *)
(* strings whose last element is the extension ("" when there is none).    *)
(***************************************************************************)
EXTENDS Integers, Sequences, FiniteSets, TLC

\* ------------------------------------------------------------------ bounds
MaxNodes == 2     \* element nodes in the input document
MaxDepth == 3     \* nested downloadAndStore calls the runtime stack can hold
MaxFaults == 1    \* failing fetches and puts the environment injects per call
MaxRuns == 3      \* analyzer runs started in all
MaxDeletes == 2   \* deleteArchive requests received in all

\* --------------------------------------------------------------- constants
LimitBytes == 20971520   \* 20<<20, the io.LimitReader cap

\* ----------------------------------------------------------------- strings
SP    == [t |-> "sp",    s |-> "", h |-> "", p |-> <<>>]
Comma == [t |-> "comma", s |-> "", h |-> "", p |-> <<>>]
Atom(s, h, p) == [t |-> "atom", s |-> s, h |-> h, p |-> p]

Min(a, b) == IF a < b THEN a ELSE b

\* strings.TrimSpace
RECURSIVE TrimLeft(_)
TrimLeft(str) ==
    IF str # <<>> /\ Head(str) = SP THEN TrimLeft(Tail(str)) ELSE str

RECURSIVE TrimRight(_)
TrimRight(str) ==
    IF str # <<>> /\ str[Len(str)] = SP
    THEN TrimRight(SubSeq(str, 1, Len(str) - 1))
    ELSE str

TrimSpace(str) == TrimRight(TrimLeft(str))

\* strings.HasPrefix(raw, "data:") / (raw, "javascript:"): the string starts
\* with an atom of that scheme
HasPrefix(str, scheme) ==
    str # <<>> /\ str[1].t = "atom" /\ str[1].s = scheme

\* strings.Split(raw, sep): the pieces between the separator tokens
RECURSIVE SplitAcc(_, _, _)
SplitAcc(str, sep, cur) ==
    IF str = <<>> THEN <<cur>>
    ELSE IF Head(str) = sep
         THEN <<cur>> \o SplitAcc(Tail(str), sep, <<>>)
         ELSE SplitAcc(Tail(str), sep, Append(cur, Head(str)))

Split(str, sep) == SplitAcc(str, sep, <<>>)

\* strings.Fields(part): the atoms, whitespace runs dropped
Fields(str) == SelectSeq(str, LAMBDA tok : tok # SP)

\* strings.Join(parts, sep) over a sequence of strings
RECURSIVE Join(_, _)
Join(parts, sep) ==
    IF parts = <<>> THEN <<>>
    ELSE IF Len(parts) = 1 THEN parts[1]
    ELSE parts[1] \o sep \o Join(Tail(parts), sep)

\* -------------------------------------------------------------------- URLs
\* A *url.URL: scheme, host, path.  NilURL is the nil pointer.
URL(s, h, p) == [s |-> s, h |-> h, p |-> p]
NilURL == URL("nil", "", <<>>)

\* url.Parse(raw): fails on an atom the parser rejects (scheme "%"); the
\* inputs hold one atom per reference, anything else is rejected here.
ParseOK(raw) == Len(raw) = 1 /\ raw[1].t = "atom" /\ raw[1].s # "%"
Parse(raw) == URL(raw[1].s, raw[1].h, raw[1].p)

\* base.ResolveReference(u): a reference with a scheme stands for itself, a
\* relative one takes the base's scheme and host.
ResolveReference(base, u) ==
    IF u.s # "" THEN u ELSE URL(base.s, base.h, u.p)

\* path.Ext(parsed.Path)
PathExt(p) == IF p = <<>> THEN "" ELSE p[Len(p)]

\* u.String() back into a one-atom string
String(u) == <<Atom(u.s, u.h, u.p)>>

\* ----------------------------------------------------------- content types
\* mime.TypeByExtension over the extensions the model uses (Go's built-in
\* table); "" is an extension the table does not know
TypeByExtension(ext) ==
    CASE ext = ".css" -> "text/css; charset=utf-8"
      [] ext = ".png" -> "image/png"
      [] OTHER        -> ""

\* strings.TrimSpace(fallback) != "" over the declared Content-Type values
IsBlank(ct) == ct \in {"", " "}

\* a faulty variant of GuessContentType: the declared type comes first
GuessContentTypeDeclared(name, fallback) ==
    IF ~IsBlank(fallback) THEN fallback
    ELSE IF PathExt(name) # "" /\ TypeByExtension(PathExt(name)) # ""
    THEN TypeByExtension(PathExt(name))
    ELSE "application/octet-stream"

\* storage.GuessContentType(filename, fallback); the filename's extension is
\* the last element of its path tuple
GuessContentType(name, fallback) ==
    IF PathExt(name) # "" /\ TypeByExtension(PathExt(name)) # ""
    THEN TypeByExtension(PathExt(name))
    ELSE IF ~IsBlank(fallback) THEN fallback
    ELSE "application/octet-stream"

\* mimeExtensions(contentType)[0] via mimeExtMap, the parameters after ";"
\* cut off and the type lower-cased; "" when the type is unknown
mimeExtensions(ct) ==
    CASE ct \in {"text/css", "text/css; charset=utf-8", "TEXT/CSS"} -> ".css"
      [] ct = "image/png" -> ".png"
      [] OTHER            -> ""

\* strings.Contains(contentType, "text/css")
ContainsTextCSS(ct) == ct \in {"text/css", "text/css; charset=utf-8"}

\* strings.EqualFold(ext, ".css")
EqualFoldCSS(ext) == ext \in {".css", ".CSS"}

\* ------------------------------------------------------- names and paths
\* hex(sha1(rawURL)): the digest is written as the URL it digests, which
\* keeps it a function of the whole URL and of nothing else
Sha1(u) == <<"sha1", u.s, u.h>> \o u.p

\* downloadAndStore, lines 241-255: the stored file's extension
StoredExt(u, declared) ==
    IF PathExt(u.p) # "" THEN PathExt(u.p)
    ELSE IF declared # "" /\ mimeExtensions(declared) # ""
         THEN mimeExtensions(declared)
    ELSE ".bin"

\* line 258: name := hex(hash) + ext
StoredName(u, ext) == Sha1(u) \o <<ext>>

\* storage.ArchivePrefix(archiveID)
ArchivePrefix(id) == <<"archives", id>>

\* line 260: path.Join(ArchivePrefix(archiveID), "assets", name)
ObjectPath(id, name) == ArchivePrefix(id) \o <<"assets">> \o name

\* line 276: path.Join("assets", name)
StoredPath(name) == <<"assets">> \o name

\* lines 206 / 311: fmt.Sprintf("/api/assets/%s/%s", archiveID, storedPath),
\* a path-absolute reference: no scheme, no host
ApiPath(id, storedPath) ==
    <<Atom("", "", <<"api", "assets", id>> \o storedPath)>>

\* line 264: is the fetched resource a stylesheet
IsCSS(contentType, ext) == ContainsTextCSS(contentType) \/ EqualFoldCSS(ext)

Asset(original, stored, type) ==
    [Original |-> original, Stored |-> stored, Type |-> type]

\* ---------------------------------------------------------------- handleURL
\* handleURL lines 183-199: the trimmed reference, and whether it is passed
\* on to downloadAndStore (go) and as which absolute URL
handleURLResolve(base, rawIn) ==
    LET raw == TrimSpace(rawIn) IN
    IF raw = <<>> \/ HasPrefix(raw, "data") \/ HasPrefix(raw, "javascript")
    THEN [go |-> FALSE, raw |-> raw, u |-> NilURL]
    ELSE IF ~ParseOK(raw)
    THEN [go |-> FALSE, raw |-> raw, u |-> NilURL]
    ELSE LET u == IF base # NilURL
                  THEN ResolveReference(base, Parse(raw))
                  ELSE Parse(raw)
         IN IF u.s # "http" /\ u.s # "https"
            THEN [go |-> FALSE, raw |-> raw, u |-> NilURL]
            ELSE [go |-> TRUE, raw |-> raw, u |-> u]

\* what handleURL returns when it returns without a download (lines 185,
\* 190, 198) or when the download failed (line 203): the trimmed raw string
handleURLSkip(raw) == [updated |-> raw, assets |-> <<>>]

\* handleURL lines 206-212, after downloadAndStore succeeded
handleURLDone(id, u, res) ==
    [updated |-> ApiPath(id, res.stored),
     assets  |-> <<Asset(u, res.stored, res.ct)>> \o res.extra]

\* handleURL lines 201-212 on the callee's result
handleURLReturn(id, raw, u, res) ==
    IF res.err THEN handleURLSkip(raw) ELSE handleURLDone(id, u, res)

\* ------------------------------------------------------------- rewriteCSS
\* A stylesheet is a sequence of chunks: literal text, url(Q ref Q),
\* @import url(Q ref Q), or @import Q ref Q, Q a quote character or none.
Chunk(form, q, ref) == [form |-> form, q |-> q, ref |-> ref]

\* reURL  url\(([^)]+)\)  matches the url(...) of a url chunk and of an
\* @import url(...) chunk
reURLMatches(c) == c.form \in {"url", "import_url"}

\* reImport  @import\s+(?:url\()?\s*['"]?([^'")\s]+)['"]?\s*\)?
reImportMatches(c) == c.form \in {"import_url", "import_str"}

\* replaceFn lines 292-306: the quotes and blanks are stripped (the chunk
\* keeps them apart from the reference), then the checks of handleURL
replaceFnResolve(base, rawIn) ==
    LET raw == TrimSpace(rawIn) IN
    IF raw = <<>> \/ HasPrefix(raw, "data") \/ HasPrefix(raw, "javascript")
    THEN [go |-> FALSE, u |-> NilURL]
    ELSE IF ~ParseOK(raw)
    THEN [go |-> FALSE, u |-> NilURL]
    ELSE LET u == IF base # NilURL
                  THEN ResolveReference(base, Parse(raw))
                  ELSE Parse(raw)
         IN IF u.s # "http" /\ u.s # "https"
            THEN [go |-> FALSE, u |-> NilURL]
            ELSE [go |-> TRUE, u |-> u]

\* lines 331 / 349: the replacement text of a match
RewrittenChunk(pass, c, apiPath) ==
    IF pass = "urlpass"
    THEN Chunk(c.form, "\"", apiPath)          \* url("%s") in place
    ELSE Chunk("import_url", "\"", apiPath)    \* @import url("%s")

\* ------------------------------------------------------------------ inputs
ArchiveID == "id1"

PageURL    == <<Atom("http", "p", <<"index", ".html">>)>>
BadPageURL == <<Atom("%", "", <<"zz">>)>>

AbsX    == <<Atom("http", "p", <<"x", ".png">>)>>
RelXPad == <<Atom("", "", <<"x", ".png">>), SP>>
BigAbs  == <<Atom("http", "p", <<"big", ".png">>)>>
DataURL == <<Atom("data", "", <<"image/png;base64">>), Comma,
             Atom("", "", <<"AAAA", "">>)>>
DataPad == DataURL \o <<SP>>
JsURL   == <<Atom("javascript", "", <<"void(0)">>)>>
Mailto  == <<Atom("mailto", "", <<"a@b">>)>>
ACss    == <<Atom("http", "c", <<"a", ".css">>)>>
\* http://p/q.php%3Fv: url.Parse decodes the path to /q.php?v
QueryAbs == <<Atom("http", "p", <<"q", ".php?v">>)>>
\* http://p/raw: a path without an extension
NoExtAbs == <<Atom("http", "p", <<"raw", "">>)>>
Desc(d) == Atom("", "", <<d, "">>)
Srcset2 == <<Atom("", "", <<"x", ".png">>), SP, Desc("1x"), Comma,
             Atom("http", "p", <<"x", ".png">>), SP, Desc("2x")>>
SrcsetData == DataURL \o <<SP, Desc("1x")>>
Word(w) == <<Atom("", "", <<w>>)>>

Attr(key, val) == [Key |-> key, Val |-> val]
Element(tag, attrs) == [Data |-> tag, Attr |-> attrs]

\* elements whose reference is fetched: later ones meet the cache the
\* earlier ones have filled
Fetching ==
    { Element("img", <<Attr("src", AbsX)>>),
      Element("img", <<Attr("srcset", Srcset2)>>),
      Element("link", <<Attr("rel", Word("Stylesheet")), Attr("href", ACss)>>) }

Elements ==
    Fetching
    \cup { Element("img", <<Attr("src", v)>>) :
                v \in {RelXPad, BigAbs, DataPad, QueryAbs, NoExtAbs} }
    \cup { Element("img", <<Attr("data-src", v)>>) : v \in {AbsX, DataURL} }
    \cup { Element("img", <<Attr("src", DataURL), Attr("data-src", AbsX),
                            Attr("data-original", BigAbs)>>) }
    \cup { Element("img", <<Attr("srcset", SrcsetData)>>),
           Element("link", <<Attr("rel", Word("Stylesheet")), Attr("href", Mailto)>>),
           Element("link", <<Attr("rel", Word("alternate")), Attr("href", ACss)>>),
           Element("script", <<Attr("src", JsURL)>>),
           Element("a", <<Attr("href", AbsX)>>) }

\* the parsed documents, as the element nodes in document order: any
\* element first, then up to MaxNodes - 1 fetching elements
RECURSIVE SeqsUpTo(_, _)
SeqsUpTo(S, n) ==
    IF n = 0 THEN {<<>>}
    ELSE LET shorter == SeqsUpTo(S, n - 1)
         IN shorter \cup {Append(q, e) : q \in shorter, e \in S}

Docs == {<<>>} \cup {<<e>> \o q : e \in Elements, q \in SeqsUpTo(Fetching, MaxNodes - 1)}

\* the page URLs a document is captured from: one that parses, and for the
\* documents of at most one element also one that does not (base is nil)
PageURLs(d) == IF Len(d) <= 1 THEN {PageURL, BadPageURL} ELSE {PageURL}

\* ----------------------------------------------------------------- the web
\* The 2xx responses a server may give for a URL: declared Content-Type,
\* body (the chunks of a stylesheet, <<>> for anything else) and body length.
Response(ct, css, size) == [ct |-> ct, css |-> css, size |-> size]

RelRef(stem, ext) == <<Atom("", "", <<stem, ext>>)>>
Text == Chunk("text", "", <<>>)

CssSelf   == <<Chunk("url", "", RelRef("a", ".css"))>>
CssImport == <<Chunk("import_url", "'", RelRef("b", ".css")), Text,
               Chunk("url", "\"", RelRef("x", ".png"))>>
CssBack   == <<Chunk("import_str", "\"", RelRef("a", ".css"))>>
CssLeaf   == <<Chunk("url", "", RelRef("x", ".png"))>>

Web(u) ==
    CASE u.p = <<"x", ".png">>   -> {Response("image/png", <<>>, 1)}
      [] u.p = <<"big", ".png">> -> {Response("image/png", <<>>, LimitBytes + 1)}
      [] u.p = <<"q", ".php?v">> -> {Response("image/png", <<>>, 1)}
      [] u.p = <<"raw", "">>     -> {Response(ct, <<>>, 1) :
                                        ct \in {"image/png", "text/plain", " "}}
      [] u.p = <<"a", ".css">>   -> {Response("text/css", b, 1) : b \in {CssSelf, CssImport}}
      [] u.p = <<"b", ".css">>   -> {Response("text/css", b, 1) : b \in {<<Text>>, CssBack, CssLeaf}}
      [] u.p # <<>> /\ u.p[1] = "api" -> {Response("text/html", <<>>, 1)}
      [] OTHER                   -> {}

\* ------------------------------------------------------------------- state
VARIABLES
    phase,     \* "idle", "walk", "returned", or "overflow" (stack exhausted)
    pageURL,   \* Process argument
    rawHTML,   \* Process argument: the element nodes it parses to, <<>> if empty
    doc,       \* the parse tree whose attributes the walk mutates
    pos,       \* where the walk stands: node, attribute rule, srcset progress
    stack,     \* the active downloadAndStore calls, innermost last
    cache,     \* map[string]assetInfo of this Process call
    assets,    \* the Asset list Process accumulates
    store,     \* the object store: object path -> stored object
    fetchLog,  \* every HTTP GET issued, in order, with its outcome
    putLog,    \* every PutBytes that succeeded, in order
    faults,    \* how many fetches and puts have failed so far
    result,    \* what Process returned
    ctx,       \* the capture's context: is its deadline over, and since when
    calls,     \* two Process invocations running side by side (SpecPair)
    analyze,   \* the Server's analyzer fields and its runs (SpecAnalyze)
    archives   \* the Archive records and the requests on them (SpecArchives)

vars == <<phase, pageURL, rawHTML, doc, pos, stack, cache, assets, store,
          fetchLog, putLog, faults, result, ctx, calls, analyze, archives>>

\* line 65: base, _ := url.Parse(pageURL)
base == IF ParseOK(pageURL) THEN Parse(pageURL) ELSE NilURL

\* ---------------------------------------------------------------- the walk
\* The attribute rules of walk in the order the code applies them to a node:
\* src (lines 73-84), the lazy-load keys (87-102), srcset (103-114),
\* href (119-130).
StageKeys == <<"src", "data-src", "data-original", "data-lazy-src",
               "data-lazy", "srcset", "href">>

LazyKeys == {"data-src", "data-original", "data-lazy-src", "data-lazy"}

\* the index of the first attribute with the key, 0 if there is none
AttrIndex(el, key) ==
    LET hits == {i \in 1..Len(el.Attr) : el.Attr[i].Key = key}
    IN IF hits = {} THEN 0 ELSE CHOOSE i \in hits : \A j \in hits : i <= j

ToLower(w) == IF w = "Stylesheet" THEN "stylesheet" ELSE w

\* a faulty variant of RelMatches: any link that has a rel attribute passes
RelMatchesAny(el) == AttrIndex(el, "rel") # 0

\* attrValue(n, "rel") contains "stylesheet" or "icon" (lines 117-118)
RelMatches(el) ==
    LET i == AttrIndex(el, "rel") IN
    /\ i # 0
    /\ \E j \in 1..Len(el.Attr[i].Val) :
          /\ el.Attr[i].Val[j].t = "atom"
          /\ ToLower(el.Attr[i].Val[j].p[1]) \in {"stylesheet", "icon"}

\* does rule k act on the element: its tag selects the rule and the element
\* carries the attribute
StageApplies(el, k) ==
    /\ AttrIndex(el, StageKeys[k]) # 0
    /\ CASE k = 1        -> el.Data \in {"img", "source", "video", "audio", "script"}
         [] k \in 2..6   -> el.Data = "img"
         [] OTHER        -> el.Data = "link" /\ RelMatches(el)

Pos(n, k) == [n |-> n, k |-> k, part |-> 1, parts |-> <<>>, passets |-> <<>>]

\* the next (node, rule) after (n, k) that has an attribute to handle, in
\* the order of the walk; node Len(d)+1 when the walk is over
RECURSIVE NextPos(_, _, _)
NextPos(d, n, k) ==
    IF n > Len(d) THEN Pos(Len(d) + 1, 0)
    ELSE IF k >= Len(StageKeys) THEN NextPos(d, n + 1, 0)
    ELSE IF StageApplies(d[n], k + 1) THEN Pos(n, k + 1)
    ELSE NextPos(d, n, k + 1)

\* a faulty variant of SetAttr: a lazy-load attribute is kept and a src
\* attribute added next to it
SetAttrAdding(d, n, i, rename, updated) ==
    IF updated = <<>> THEN d
    ELSE IF rename
         THEN [d EXCEPT ![n].Attr = Append(@, Attr("src", updated))]
         ELSE [d EXCEPT ![n].Attr[i] = Attr(@.Key, updated)]

\* n.Attr[i].Val = updated, and for a lazy-load key n.Attr[i].Key = "src",
\* under the guard  if updated != ""  (lines 76-78, 92-95, 106-108, 122-124)
SetAttr(d, n, i, rename, updated) ==
    IF updated = <<>> THEN d
    ELSE [d EXCEPT ![n].Attr[i] =
             Attr(IF rename THEN "src" ELSE @.Key, updated)]

\* handleSrcset lines 150-166 for candidate j of the attribute: the
\* candidate is skipped when blank, else split into URL and descriptor
SrcsetParts(raw) == Split(raw, Comma)

SrcsetPart(raw, j) ==
    LET part   == TrimSpace(SrcsetParts(raw)[j])
        fields == Fields(part)
    IN IF part = <<>> \/ fields = <<>>
       THEN [skip |-> TRUE, urlPart |-> <<>>, descriptor |-> <<>>]
       ELSE [skip |-> FALSE,
             urlPart |-> <<fields[1]>>,
             descriptor |->
                IF Len(fields) > 1
                THEN <<SP>> \o Join([i \in 1..(Len(fields) - 1) |-> <<fields[i + 1]>>], <<SP>>)
                ELSE <<>>]

\* the raw string handleURL is called with at the walk's position
RawAt(d, p) ==
    LET val == d[p.n].Attr[AttrIndex(d[p.n], StageKeys[p.k])].Val
    IN IF StageKeys[p.k] = "srcset" THEN SrcsetPart(val, p.part).urlPart ELSE val

\* a faulty variant of SrcsetNext: the candidates are rejoined with "," alone
SrcsetNextTight(d, p, as) ==
    LET i   == AttrIndex(d[p.n], "srcset")
        raw == d[p.n].Attr[i].Val
    IN IF p.part < Len(SrcsetParts(raw))
       THEN [doc |-> d, pos |-> [p EXCEPT !.part = @ + 1], assets |-> as]
       ELSE LET ret == IF p.parts = <<>>
                       THEN [updated |-> raw, assets |-> <<>>]
                       ELSE [updated |-> Join(p.parts, <<Comma>>),
                             assets  |-> p.passets]
                d2  == SetAttr(d, p.n, i, FALSE, ret.updated)
            IN [doc |-> d2, pos |-> NextPos(d2, p.n, p.k),
                assets |-> as \o ret.assets]

\* handleSrcset lines 176-179 and Process lines 106-111, once candidate
\* p.part was the last; otherwise on to the next candidate
SrcsetNext(d, p, as) ==
    LET i   == AttrIndex(d[p.n], "srcset")
        raw == d[p.n].Attr[i].Val
    IN IF p.part < Len(SrcsetParts(raw))
       THEN [doc |-> d, pos |-> [p EXCEPT !.part = @ + 1], assets |-> as]
       ELSE LET ret == IF p.parts = <<>>
                       THEN [updated |-> raw, assets |-> <<>>]
                       ELSE [updated |-> Join(p.parts, <<Comma, SP>>),
                             assets  |-> p.passets]
                d2  == SetAttr(d, p.n, i, FALSE, ret.updated)
            IN [doc |-> d2, pos |-> NextPos(d2, p.n, p.k),
                assets |-> as \o ret.assets]

\* what the caller of handleURL does with (updated, assets): Process for
\* src, lazy-load keys and href; handleSrcset lines 168-174 for a candidate
WalkerAfter(d, p, as, r) ==
    LET key == StageKeys[p.k]
        i   == AttrIndex(d[p.n], key)
    IN IF key = "srcset"
       THEN LET sp  == SrcsetPart(d[p.n].Attr[i].Val, p.part)
                upd == IF r.updated = <<>> THEN sp.urlPart ELSE r.updated
            IN SrcsetNext(d,
                 [p EXCEPT !.parts = Append(@, upd \o sp.descriptor),
                           !.passets = @ \o r.assets], as)
       ELSE LET d2 == SetAttr(d, p.n, i, key \in LazyKeys, r.updated)
            IN [doc |-> d2, pos |-> NextPos(d2, p.n, p.k),
                assets |-> as \o r.assets]

\* --------------------------------------------------------- downloadAndStore
\* One active call of downloadAndStore.  st is where it stands: "enter"
\* (line 216), inside rewriteCSS in the url() pass or the @import pass
\* (lines 316 / 334, about to call replaceFn on chunk i), or "put" (line 272).
Frame(u, st, css, i, as, ct, ext, n) ==
    [u |-> u, st |-> st, css |-> css, i |-> i, assets |-> as,
     ct |-> ct, ext |-> ext, n |-> n]

NewFrame(u) == Frame(u, "enter", <<>>, 0, <<>>, "", "", 0)

\* does the pass call downloadAndStore for chunk c of stylesheet cssURL
PassCalls(cssURL, st, c) ==
    /\ IF st = "urlpass" THEN reURLMatches(c) ELSE reImportMatches(c)
    /\ replaceFnResolve(cssURL, c.ref).go

\* rewriteCSS between two downloads: matches whose replaceFn returns ""
\* leave the text as it is (lines 328-330, 346-348); after the last url()
\* match the @import pass starts, after the last @import match rewriteCSS
\* returns and downloadAndStore stands before PutBytes
RECURSIVE CssSeek(_)
CssSeek(f) ==
    IF f.i > Len(f.css)
    THEN IF f.st = "urlpass"
         THEN CssSeek([f EXCEPT !.st = "importpass", !.i = 1])
         ELSE [f EXCEPT !.st = "put"]
    ELSE IF PassCalls(f.u, f.st, f.css[f.i]) THEN f
    ELSE CssSeek([f EXCEPT !.i = @ + 1])

\* replaceFn lines 307-312 on the callee's result, and the pass's closure
\* (lines 321-331, 339-349): the asset and the nested assets are appended,
\* the match is replaced unless apiPath is ""
CssAfter(f, callee, res) ==
    IF res.err THEN [f EXCEPT !.i = @ + 1]
    ELSE [f EXCEPT
            !.css[f.i] = RewrittenChunk(f.st, @, ApiPath(ArchiveID, res.stored)),
            !.assets   = @ \o <<Asset(callee, res.stored, res.ct)>> \o res.extra,
            !.i        = @ + 1]

\* the results of downloadAndStore
Failed == [err |-> TRUE, stored |-> <<>>, ct |-> "", extra |-> <<>>]
Ok(stored, ct, extra) ==
    [err |-> FALSE, stored |-> stored, ct |-> ct, extra |-> extra]

\* lines 216-218: the cache hit returns the cached entry and no assets
CacheLookup(c, u) ==
    IF u \in DOMAIN c
    THEN [ok |-> TRUE, res |-> Ok(c[u].Stored, c[u].ContentType, <<>>)]
    ELSE [ok |-> FALSE, res |-> Failed]

\* line 277: cache[rawURL] = assetInfo{...}
CachePut(c, u, stored, ct) ==
    [k \in DOMAIN c \cup {u} |->
        IF k = u THEN [Stored |-> stored, ContentType |-> ct] ELSE c[k]]

\* line 236: io.ReadAll(io.LimitReader(resp.Body, 20<<20)): the bytes read
ReadLimited(size) == Min(size, LimitBytes)

\* a faulty variant of AfterRead: the body is stored as fetched, rewriteCSS never runs
AfterReadOpaque(u, r) ==
    Frame(u, "put", r.css, 0, <<>>,
          GuessContentType(StoredName(u, StoredExt(u, r.ct)), r.ct),
          StoredExt(u, r.ct), ReadLimited(r.size))

\* lines 241-270 once the body is read: extension, content type, and the
\* frame standing in rewriteCSS (a stylesheet) or before PutBytes
AfterRead(u, r) ==
    LET ext == StoredExt(u, r.ct)
        ct  == GuessContentType(StoredName(u, ext), r.ct)
        n   == ReadLimited(r.size)
    IN IF IsCSS(ct, ext)
       THEN CssSeek(Frame(u, "urlpass", r.css, 1, <<>>, ct, ext, n))
       ELSE Frame(u, "put", r.css, 0, <<>>, ct, ext, n)

\* the innermost call and the calls below it
Top == stack[Len(stack)]
Callers == SubSeq(stack, 1, Len(stack) - 1)

\* handleURL lines 201-212 on the result of the call it made for the
\* attribute at the walk's position, then its caller in Process or
\* handleSrcset
ReturnToWalk(res) ==
    WalkerAfter(doc, pos, assets,
        handleURLReturn(ArchiveID, TrimSpace(RawAt(doc, pos)), Top.u, res))

\* the innermost call returns res to its caller: handleURL in the walk, or
\* replaceFn in the rewriteCSS of the call below it
Return(res) ==
    IF Len(stack) = 1
    THEN /\ stack' = <<>>
         /\ doc' = ReturnToWalk(res).doc
         /\ pos' = ReturnToWalk(res).pos
         /\ assets' = ReturnToWalk(res).assets
    ELSE /\ stack' = [Callers EXCEPT ![Len(Callers)] =
                         CssSeek(CssAfter(@, Top.u, res))]
         /\ UNCHANGED <<doc, pos, assets>>

\* a call of downloadAndStore: a new frame, unless the stack is exhausted
Call(u) ==
    IF Len(stack) < MaxDepth
    THEN stack' = Append(stack, NewFrame(u)) /\ phase' = phase
    ELSE stack' = stack /\ phase' = "overflow"

\* ----------------------------------------------------------------- actions
\* The ctx argument of Process.  While its deadline is not over it plays no
\* part; once it is over (done), p.Client.Do (line 226) and PutObject
\* (minio.go:46) return its error.  The record keeps what the capture had
\* done when the deadline ran out: the puts made, the nodes the walk had
\* begun to handle, and the tree as rewritten so far.
Background == [done |-> FALSE, puts |-> 0, n |-> 0, doc |-> <<>>]
Expired(puts, n, d) == [done |-> TRUE, puts |-> puts, n |-> n, doc |-> d]

Init ==
    /\ phase = "idle"
    /\ rawHTML \in Docs
    /\ pageURL \in PageURLs(rawHTML)
    /\ doc = <<>>
    /\ pos = Pos(1, 0)
    /\ stack = <<>>
    /\ cache = <<>>
    /\ assets = <<>>
    /\ store = <<>>
    /\ fetchLog = <<>>
    /\ putLog = <<>>
    /\ faults = 0
    /\ result = [err |-> FALSE, HTML |-> <<>>, Assets |-> <<>>]
    /\ ctx = Background
    /\ calls = <<>>
    /\ analyze = <<>>
    /\ archives = <<>>

\* a faulty variant of ProcessEmpty: the empty input is parsed and rendered
\* like any other
ProcessEmptyRendered ==
    /\ phase = "idle" /\ rawHTML = <<>>
    /\ phase' = "returned"
    /\ result' = [err |-> FALSE, HTML |-> <<>>, Assets |-> <<>>]
    /\ UNCHANGED <<ctx, calls, analyze, archives, pageURL, rawHTML, doc, pos, stack, cache, assets,
                   store, fetchLog, putLog, faults>>

\* Process lines 55-57: empty input
ProcessEmpty ==
    /\ phase = "idle" /\ rawHTML = <<>>
    /\ phase' = "returned"
    /\ result' = [err |-> TRUE, HTML |-> <<>>, Assets |-> <<>>]
    /\ UNCHANGED <<ctx, calls, analyze, archives, pageURL, rawHTML, doc, pos, stack, cache, assets, store,
                   fetchLog, putLog, faults>>

\* Process lines 60-63: html.Parse reports an error
ProcessParseError ==
    /\ phase = "idle" /\ rawHTML # <<>>
    /\ phase' = "returned"
    /\ result' = [err |-> TRUE, HTML |-> <<>>, Assets |-> <<>>]
    /\ UNCHANGED <<ctx, calls, analyze, archives, pageURL, rawHTML, doc, pos, stack, cache, assets, store,
                   fetchLog, putLog, faults>>

\* Process lines 59-66, 139: the tree is parsed and the walk starts
ProcessParse ==
    /\ phase = "idle" /\ rawHTML # <<>>
    /\ phase' = "walk"
    /\ doc' = rawHTML
    /\ pos' = NextPos(rawHTML, 1, 0)
    /\ UNCHANGED <<ctx, calls, analyze, archives, pageURL, rawHTML, stack, cache, assets, store, fetchLog,
                   putLog, faults, result>>

Walking == phase = "walk" /\ stack = <<>> /\ pos.n <= Len(doc)

\* the attribute at the walk's position: is it a blank srcset candidate
\* (lines 155-161), and what handleURL makes of its reference
AtBlank ==
    /\ StageKeys[pos.k] = "srcset"
    /\ SrcsetPart(doc[pos.n].Attr[AttrIndex(doc[pos.n], "srcset")].Val, pos.part).skip

AtResolve == handleURLResolve(base, RawAt(doc, pos))

Skipped ==
    IF AtBlank THEN SrcsetNext(doc, pos, assets)
    ELSE WalkerAfter(doc, pos, assets, handleURLSkip(AtResolve.raw))

\* the walk handles the attribute at its position without a download:
\* a blank srcset candidate, or a reference handleURL returns early on
WalkSkip ==
    /\ Walking
    /\ AtBlank \/ ~AtResolve.go
    /\ doc' = Skipped.doc
    /\ pos' = Skipped.pos
    /\ assets' = Skipped.assets
    /\ UNCHANGED <<ctx, calls, analyze, archives, phase, pageURL, rawHTML, stack, cache, store, fetchLog,
                   putLog, faults, result>>

\* the walk reaches a reference handleURL passes to downloadAndStore
WalkCall ==
    /\ Walking
    /\ ~AtBlank /\ AtResolve.go
    /\ Call(AtResolve.u)
    /\ UNCHANGED <<ctx, calls, analyze, archives, pageURL, rawHTML, doc, pos, cache, assets, store, fetchLog,
                   putLog, faults, result>>

Entering == phase = "walk" /\ stack # <<>> /\ Top.st = "enter"

\* downloadAndStore lines 216-218
CacheHit ==
    /\ Entering
    /\ CacheLookup(cache, Top.u).ok
    /\ Return(CacheLookup(cache, Top.u).res)
    /\ UNCHANGED <<ctx, calls, analyze, archives, phase, pageURL, rawHTML, cache, store, fetchLog, putLog,
                   faults, result>>

FetchEntry(u, outcome, r) == [u |-> u, outcome |-> outcome, resp |-> r]

NoResponse == Response("", <<>>, 0)

\* the server answers a URL it has answered before with the same response
Serves(u, r) ==
    /\ r \in Web(u)
    /\ \A i \in 1..Len(fetchLog) :
          fetchLog[i].u = u /\ fetchLog[i].outcome = "ok" => fetchLog[i].resp = r

\* lines 220-229, 236-239: the request fails, or reading the body does
FetchError ==
    /\ Entering
    /\ ~CacheLookup(cache, Top.u).ok
    /\ fetchLog' = Append(fetchLog, FetchEntry(Top.u, "error", NoResponse))
    /\ IF ctx.done
       THEN faults' = faults      \* context deadline exceeded
       ELSE faults < MaxFaults /\ faults' = faults + 1
    /\ Return(Failed)
    /\ UNCHANGED <<ctx, calls, analyze, archives, phase, pageURL, rawHTML, cache, store, putLog, result>>

\* lines 232-234: a status outside 200..299
FetchBadStatus ==
    /\ Entering /\ ~ctx.done
    /\ ~CacheLookup(cache, Top.u).ok
    /\ fetchLog' = Append(fetchLog, FetchEntry(Top.u, "status", NoResponse))
    /\ IF Web(Top.u) = {}
       THEN faults' = faults      \* the server has no such resource
       ELSE faults < MaxFaults /\ faults' = faults + 1
    /\ Return(Failed)
    /\ UNCHANGED <<ctx, calls, analyze, archives, phase, pageURL, rawHTML, cache, store, putLog, result>>

\* lines 226-270: a 2xx response is read; a stylesheet enters rewriteCSS
FetchOK ==
    /\ Entering /\ ~ctx.done
    /\ ~CacheLookup(cache, Top.u).ok
    /\ \E r \in Web(Top.u) :
          /\ Serves(Top.u, r)
          /\ fetchLog' = Append(fetchLog, FetchEntry(Top.u, "ok", r))
          /\ stack' = [stack EXCEPT ![Len(stack)] = AfterRead(Top.u, r)]
    /\ UNCHANGED <<ctx, calls, analyze, archives, phase, pageURL, rawHTML, doc, pos, cache, assets, store,
                   putLog, faults, result>>

\* a faulty variant of CssCall: the reference is resolved against the page URL
CssCallPageBase ==
    /\ phase = "walk" /\ stack # <<>>
    /\ Top.st \in {"urlpass", "importpass"}
    /\ Call(replaceFnResolve(base, Top.css[Top.i].ref).u)
    /\ UNCHANGED <<ctx, calls, analyze, archives, pageURL, rawHTML, doc, pos, cache, assets, store, fetchLog,
                   putLog, faults, result>>

\* rewriteCSS: replaceFn calls downloadAndStore for the match at chunk i
CssCall ==
    /\ phase = "walk" /\ stack # <<>>
    /\ Top.st \in {"urlpass", "importpass"}
    /\ Call(replaceFnResolve(Top.u, Top.css[Top.i].ref).u)
    /\ UNCHANGED <<ctx, calls, analyze, archives, pageURL, rawHTML, doc, pos, cache, assets, store, fetchLog,
                   putLog, faults, result>>

Object(css, n, ct) == [css |-> css, n |-> n, ct |-> ct]

StorePut(st, path, obj) ==
    [k \in DOMAIN st \cup {path} |-> IF k = path THEN obj ELSE st[k]]

TopName == StoredName(Top.u, Top.ext)

\* lines 272-278: PutBytes succeeds, the cache entry is written
PutOK ==
    /\ phase = "walk" /\ stack # <<>> /\ Top.st = "put" /\ ~ctx.done
    /\ store' = StorePut(store, ObjectPath(ArchiveID, TopName),
                         Object(Top.css, Top.n, Top.ct))
    /\ putLog' = Append(putLog, ObjectPath(ArchiveID, TopName))
    /\ cache' = CachePut(cache, Top.u, StoredPath(TopName), Top.ct)
    /\ Return(Ok(StoredPath(TopName), Top.ct, Top.assets))
    /\ UNCHANGED <<ctx, calls, analyze, archives, phase, pageURL, rawHTML, fetchLog, faults, result>>

\* lines 272-274: PutBytes fails
PutError ==
    /\ phase = "walk" /\ stack # <<>> /\ Top.st = "put"
    /\ IF ctx.done
       THEN faults' = faults      \* context deadline exceeded
       ELSE faults < MaxFaults /\ faults' = faults + 1
    /\ Return(Failed)
    /\ UNCHANGED <<ctx, calls, analyze, archives, phase, pageURL, rawHTML, cache, store, fetchLog, putLog,
                   result>>

\* a faulty variant of ProcessResult: a capture that localized nothing is an error
ProcessResultFailing(d, as) ==
    IF as = <<>> THEN [err |-> TRUE, HTML |-> <<>>, Assets |-> <<>>]
    ELSE [err |-> FALSE, HTML |-> d, Assets |-> as]

\* line 146: &Result{HTML: out.Bytes(), Assets: assets}, nil.  html.Render
\* writes a tree that html.Parse built into a bytes.Buffer, which cannot fail.
ProcessResult(d, as) == [err |-> FALSE, HTML |-> d, Assets |-> as]

\* Process lines 141-146: the tree is rendered and the Result returned
Render ==
    /\ phase = "walk" /\ stack = <<>> /\ pos.n > Len(doc)
    /\ phase' = "returned"
    /\ result' = ProcessResult(doc, assets)
    /\ UNCHANGED <<ctx, calls, analyze, archives, pageURL, rawHTML, doc, pos, stack, cache, assets, store,
                   fetchLog, putLog, faults>>

Next ==
    \/ ProcessEmpty \/ ProcessParseError \/ ProcessParse
    \/ WalkSkip \/ WalkCall
    \/ CacheHit \/ FetchError \/ FetchBadStatus \/ FetchOK
    \/ CssCall \/ PutOK \/ PutError
    \/ Render

Spec == Init /\ [][Next]_vars

\* the nodes the walk has begun to handle: the node it stands at counts
\* unless the walk is only about to handle that node's first reference
Begun ==
    IF stack = <<>> /\ pos = NextPos(doc, pos.n, 0) THEN pos.n - 1 ELSE pos.n

\* the deadline of ctx runs out at some point of the walk
Expire ==
    /\ phase = "walk" /\ ~ctx.done
    /\ ctx' = Expired(Len(putLog), Begun, doc)
    /\ UNCHANGED <<phase, pageURL, rawHTML, doc, pos, stack, cache, assets,
                   store, fetchLog, putLog, faults, result, calls,
                   analyze, archives>>

\* Process under a context whose deadline may run out
NextDeadline == Next \/ Expire

SpecDeadline == Init /\ [][NextDeadline]_vars

\* ------------------------------------------------------ two invocations
\* Two Process invocations on one Processor, for two archives, their steps
\* interleaved.  The Processor holds the HTTP client and the store; each
\* invocation makes its own cache (line 59).  An invocation is followed
\* through the downloadAndStore calls of its references (none of them a
\* stylesheet): refs[i] is the one it stands at, st where it stands in it.
PairIDs == <<"id1", "id2">>
PairURLs == {Parse(AbsX), Parse(BigAbs)}

Invocation(id, refs) ==
    [id |-> id, refs |-> refs, i |-> 1, st |-> "enter", resp |-> NoResponse,
     cache |-> <<>>, fetched |-> <<>>, puts |-> <<>>]

RefLists == SeqsUpTo(PairURLs, MaxNodes) \ {<<>>}

\* a faulty variant of CallCache: one cache kept by the Processor
CallCacheShared(cs, c) ==
    [u \in DOMAIN cs[1].cache \cup DOMAIN cs[2].cache |->
        IF u \in DOMAIN cs[c].cache THEN cs[c].cache[u] ELSE cs[3 - c].cache[u]]

\* line 59: cache := make(map[string]assetInfo), the cache invocation c
\* passes to its downloadAndStore calls
CallCache(cs, c) == cs[c].cache

InitPair ==
    /\ phase = "idle"
    /\ rawHTML = <<>>
    /\ pageURL = PageURL
    /\ doc = <<>>
    /\ pos = Pos(1, 0)
    /\ stack = <<>>
    /\ cache = <<>>
    /\ assets = <<>>
    /\ store = <<>>
    /\ fetchLog = <<>>
    /\ putLog = <<>>
    /\ faults = 0
    /\ result = [err |-> FALSE, HTML |-> <<>>, Assets |-> <<>>]
    /\ ctx = Background
    /\ analyze = <<>>
    /\ archives = <<>>
    /\ \E r1, r2 \in RefLists :
          calls = <<Invocation(PairIDs[1], r1), Invocation(PairIDs[2], r2)>>

PairAt(c, st) ==
    /\ calls[c].i <= Len(calls[c].refs)
    /\ calls[c].st = st

PairRef(c) == calls[c].refs[calls[c].i]

PairFrame == <<phase, pageURL, rawHTML, doc, pos, stack, cache, assets,
               fetchLog, putLog, result, ctx, analyze, archives>>

\* lines 216-218 in invocation c
PairCacheHit(c) ==
    /\ PairAt(c, "enter")
    /\ CacheLookup(CallCache(calls, c), PairRef(c)).ok
    /\ calls' = [calls EXCEPT ![c].i = @ + 1]
    /\ UNCHANGED <<PairFrame, store, faults>>

\* lines 220-239 in invocation c: the GET fails
PairFetchError(c) ==
    /\ PairAt(c, "enter")
    /\ ~CacheLookup(CallCache(calls, c), PairRef(c)).ok
    /\ faults < MaxFaults /\ faults' = faults + 1
    /\ calls' = [calls EXCEPT ![c].fetched = Append(@, PairRef(c)),
                              ![c].i = @ + 1]
    /\ UNCHANGED <<PairFrame, store>>

\* lines 220-261 in invocation c: the GET is answered 2xx
PairFetchOK(c) ==
    /\ PairAt(c, "enter")
    /\ ~CacheLookup(CallCache(calls, c), PairRef(c)).ok
    /\ \E r \in Web(PairRef(c)) :
          calls' = [calls EXCEPT ![c].fetched = Append(@, PairRef(c)),
                                 ![c].st = "put",
                                 ![c].resp = r]
    /\ UNCHANGED <<PairFrame, store, faults>>

PairName(c) ==
    StoredName(PairRef(c), StoredExt(PairRef(c), calls[c].resp.ct))

\* lines 272-278 in invocation c: PutBytes succeeds
PairPutOK(c) ==
    /\ PairAt(c, "put")
    /\ store' = StorePut(store, ObjectPath(calls[c].id, PairName(c)),
                         Object(<<>>, ReadLimited(calls[c].resp.size),
                                GuessContentType(PairName(c), calls[c].resp.ct)))
    /\ calls' = [calls EXCEPT
                   ![c].cache = CachePut(@, PairRef(c), StoredPath(PairName(c)),
                                   GuessContentType(PairName(c), calls[c].resp.ct)),
                   ![c].puts = Append(@, ObjectPath(calls[c].id, PairName(c))),
                   ![c].st = "enter",
                   ![c].i = @ + 1]
    /\ UNCHANGED <<PairFrame, faults>>

\* lines 272-274 in invocation c: PutBytes fails
PairPutError(c) ==
    /\ PairAt(c, "put")
    /\ faults < MaxFaults /\ faults' = faults + 1
    /\ calls' = [calls EXCEPT ![c].st = "enter", ![c].i = @ + 1]
    /\ UNCHANGED <<PairFrame, store>>

NextPair ==
    \E c \in 1..2 :
        \/ PairCacheHit(c) \/ PairFetchError(c) \/ PairFetchOK(c)
        \/ PairPutOK(c) \/ PairPutError(c)

SpecPair == InitPair /\ [][NextPair]_vars

\* ---------------------------------------------------------------- serving
\* The path of the request a client sends for a reference: the reference up
\* to its first "?" or "#", over the extensions the model uses.
CutQuery(e) == IF e = ".php?v" THEN ".php" ELSE e

RequestPath(ref) ==
    [i \in 1..Len(ref[1].p) |->
        IF i = Len(ref[1].p) THEN CutQuery(ref[1].p[i]) ELSE ref[1].p[i]]

\* handlers.go line 138: the route /api/assets/:id/*path; the catch-all
\* parameter starts with "/"
AssetRoute(reqPath) ==
    [id |-> reqPath[3], path |-> <<"/">> \o SubSeq(reqPath, 4, Len(reqPath))]

\* getAsset lines 395-400: the object path the handler reads
getAsset(id, p) ==
    ArchivePrefix(id) \o (IF Len(p) > 0 /\ p[1] = "/" THEN Tail(p) ELSE p)

\* ------------------------------------------------------------ the analyzer
\* Server.startAnalysis, Server.stopAnalysis and the runAnalyzerOnce
\* goroutines they start and cancel.  analyzeStatus.Running, LoopCount and
\* analyzeCancel are the Server's fields, read and written under analyzeMu;
\* each critical section is one step.  A run is named by its number;
\* analyzeCancel is the number of the run whose cancel function it holds,
\* 0 for nil.  A run stands in its body ("run"), between the two critical
\* sections of its deferred function ("deferred"), or has exited.

\* no capture is under way: the variables of Process at rest
NoCapture ==
    /\ phase = "idle"
    /\ rawHTML = <<>>
    /\ pageURL = PageURL
    /\ doc = <<>>
    /\ pos = Pos(1, 0)
    /\ stack = <<>>
    /\ cache = <<>>
    /\ assets = <<>>
    /\ store = <<>>
    /\ fetchLog = <<>>
    /\ putLog = <<>>
    /\ faults = 0
    /\ result = [err |-> FALSE, HTML |-> <<>>, Assets |-> <<>>]
    /\ ctx = Background
    /\ calls = <<>>

AnalyzeFrame == <<phase, pageURL, rawHTML, doc, pos, stack, cache, assets,
                  store, fetchLog, putLog, faults, result, ctx, calls,
                  archives>>

Run(pc, cancelled) == [pc |-> pc, cancelled |-> cancelled]

InitAnalyze ==
    /\ NoCapture
    /\ archives = <<>>
    /\ \E enabled \in BOOLEAN :
          analyze = [llm |-> enabled, Running |-> FALSE, analyzeCancel |-> 0,
                     LoopCount |-> 0, runs |-> <<>>]

\* startAnalysis, lines 32-58: refused without an LLM; under the lock, a
\* set Running flag returns the status, otherwise the cancel function is
\* stored, Running set, and the run started
startAnalysis ==
    /\ Len(analyze.runs) < MaxRuns
    /\ analyze' =
          IF ~analyze.llm \/ analyze.Running THEN analyze
          ELSE [analyze EXCEPT
                   !.analyzeCancel = Len(analyze.runs) + 1,
                   !.Running = TRUE,
                   !.runs = Append(@, Run("run", FALSE))]
    /\ UNCHANGED AnalyzeFrame

\* stopAnalysis, lines 60-70: under the lock, the stored cancel function is
\* called and cleared, and Running reset
stopAnalysis ==
    /\ analyze' =
          [analyze EXCEPT
              !.runs = IF analyze.analyzeCancel # 0
                       THEN [@ EXCEPT ![analyze.analyzeCancel].cancelled = TRUE]
                       ELSE @,
              !.analyzeCancel = 0,
              !.Running = FALSE]
    /\ UNCHANGED AnalyzeFrame

\* runAnalyzerOnce, lines 78-93: the body returns (no items left, a query
\* error, or the cancellation seen) and the deferred function updates the
\* status under the lock
runReturn(r) ==
    /\ analyze.runs[r].pc = "run"
    /\ analyze' = [analyze EXCEPT !.Running = FALSE,
                                  !.LoopCount = @ + 1,
                                  !.runs[r].pc = "deferred"]
    /\ UNCHANGED AnalyzeFrame

\* runAnalyzerOnce, lines 94-97: the deferred function clears analyzeCancel
\* under the lock and the goroutine exits
runExit(r) ==
    /\ analyze.runs[r].pc = "deferred"
    /\ analyze' = [analyze EXCEPT !.analyzeCancel = 0,
                                  !.runs[r].pc = "exited"]
    /\ UNCHANGED AnalyzeFrame

NextAnalyze ==
    \/ startAnalysis
    \/ stopAnalysis
    \/ \E r \in 1..Len(analyze.runs) : runReturn(r)
    \/ \E r \in 1..Len(analyze.runs) : runExit(r)

SpecAnalyze == InitAnalyze /\ [][NextAnalyze]_vars

\* ------------------------------------------------------------ the archives
\* Server.createArchive and Server.deleteArchive requests running side by
\* side.  archives.records is the Archive table of the metadata store, store
\* the object store, putLog the puts that succeeded.  Each createArchive
\* makes its own id (line 161); creates[id] is where the request of that id
\* stands: not yet received ("new"), before the put of index.html ("put"),
\* before the insert ("insert"), answered 201 ("done") or 500 ("failed").
\* deletes holds the deleteArchive requests received, each with the id it
\* names and where it stands.
ArchiveIDs == {"id1", "id2"}

ArchivesFrame == <<phase, pageURL, rawHTML, doc, pos, stack, cache, assets,
                   fetchLog, result, ctx, calls, analyze>>

\* line 171: htmlObject := storage.ArchivePrefix(id) + "/index.html"
htmlObject(id) == ArchivePrefix(id) \o <<"index", ".html">>

DeleteRequest(id, pc) == [id |-> id, pc |-> pc]

InitArchives ==
    /\ NoCapture
    /\ analyze = <<>>
    /\ archives = [records |-> {},
                   creates |-> [id \in ArchiveIDs |-> "new"],
                   deletes |-> <<>>]

\* createArchive lines 141-169 for a valid payload: Process returns a
\* Result, having stored the page's assets under the archive's prefix
createProcessOK(id) ==
    /\ archives.creates[id] = "new"
    /\ \E stored \in BOOLEAN :
          store' = IF stored
                   THEN StorePut(store,
                            ObjectPath(id, StoredName(Parse(AbsX), ".png")),
                            Object(<<>>, 1, "image/png"))
                   ELSE store
    /\ archives' = [archives EXCEPT !.creates[id] = "put"]
    /\ UNCHANGED <<ArchivesFrame, putLog, faults>>

\* lines 165-169: Process returns an error, the request is answered 500
createProcessError(id) ==
    /\ archives.creates[id] = "new"
    /\ archives' = [archives EXCEPT !.creates[id] = "failed"]
    /\ UNCHANGED <<ArchivesFrame, store, putLog, faults>>

\* lines 171-172: index.html is stored
createPutOK(id) ==
    /\ archives.creates[id] = "put"
    /\ store' = StorePut(store, htmlObject(id),
                         Object(<<>>, 1, "text/html; charset=utf-8"))
    /\ putLog' = Append(putLog, htmlObject(id))
    /\ archives' = [archives EXCEPT !.creates[id] = "insert"]
    /\ UNCHANGED <<ArchivesFrame, faults>>

\* a faulty variant of createPutError: the error of the put is ignored
createPutErrorIgnored(id) ==
    /\ archives.creates[id] = "put"
    /\ faults < MaxFaults /\ faults' = faults + 1
    /\ archives' = [archives EXCEPT !.creates[id] = "insert"]
    /\ UNCHANGED <<ArchivesFrame, store, putLog>>

\* lines 172-175: the put of index.html fails, the request is answered 500
createPutError(id) ==
    /\ archives.creates[id] = "put"
    /\ faults < MaxFaults /\ faults' = faults + 1
    /\ archives' = [archives EXCEPT !.creates[id] = "failed"]
    /\ UNCHANGED <<ArchivesFrame, store, putLog>>

\* lines 202-223: the Archive record is inserted
createInsertOK(id) ==
    /\ archives.creates[id] = "insert"
    /\ archives' = [archives EXCEPT !.records = @ \cup {id},
                                    !.creates[id] = "done"]
    /\ UNCHANGED <<ArchivesFrame, store, putLog, faults>>

\* lines 220-223: the insert fails, the request is answered 500
createInsertError(id) ==
    /\ archives.creates[id] = "insert"
    /\ faults < MaxFaults /\ faults' = faults + 1
    /\ archives' = [archives EXCEPT !.creates[id] = "failed"]
    /\ UNCHANGED <<ArchivesFrame, store, putLog>>

\* deleteArchive lines 356-366: the record is looked up; without one the
\* request is answered 404
deleteFirst(id) ==
    /\ Len(archives.deletes) < MaxDeletes
    /\ archives' = [archives EXCEPT !.deletes =
          Append(@, DeleteRequest(id,
              IF id \in archives.records THEN "delete" ELSE "notfound"))]
    /\ UNCHANGED <<ArchivesFrame, store, putLog, faults>>

\* line 368: the record is deleted
deleteRecord(d) ==
    /\ archives.deletes[d].pc = "delete"
    /\ archives' = [archives EXCEPT !.records = @ \ {archives.deletes[d].id},
                                    !.deletes[d].pc = "remove"]
    /\ UNCHANGED <<ArchivesFrame, store, putLog, faults>>

\* lines 368-371: the delete fails, the request is answered 500
deleteRecordError(d) ==
    /\ archives.deletes[d].pc = "delete"
    /\ faults < MaxFaults /\ faults' = faults + 1
    /\ archives' = [archives EXCEPT !.deletes[d].pc = "failed"]
    /\ UNCHANGED <<ArchivesFrame, store, putLog>>

\* the object paths under a prefix
UnderPrefix(st, prefix) ==
    {path \in DOMAIN st :
        Len(path) >= Len(prefix) /\ SubSeq(path, 1, Len(prefix)) = prefix}

\* Store.RemovePrefix(ctx, prefix): the objects under the prefix are
\* removed, all but those in kept, whose removal failed
RemovePrefix(st, prefix, kept) ==
    [path \in (DOMAIN st \ UnderPrefix(st, prefix)) \cup kept |-> st[path]]

\* lines 373-375: the archive's objects are removed; the error is dropped
deleteObjects(d) ==
    /\ archives.deletes[d].pc = "remove"
    /\ \E kept \in SUBSET UnderPrefix(store, ArchivePrefix(archives.deletes[d].id)) :
          store' = RemovePrefix(store, ArchivePrefix(archives.deletes[d].id), kept)
    /\ archives' = [archives EXCEPT !.deletes[d].pc = "done"]
    /\ UNCHANGED <<ArchivesFrame, putLog, faults>>

NextArchives ==
    \/ \E id \in ArchiveIDs : createProcessOK(id)
    \/ \E id \in ArchiveIDs : createProcessError(id)
    \/ \E id \in ArchiveIDs : createPutOK(id)
    \/ \E id \in ArchiveIDs : createPutError(id)
    \/ \E id \in ArchiveIDs : createInsertOK(id)
    \/ \E id \in ArchiveIDs : createInsertError(id)
    \/ \E id \in ArchiveIDs : deleteFirst(id)
    \/ \E d \in 1..Len(archives.deletes) : deleteRecord(d)
    \/ \E d \in 1..Len(archives.deletes) : deleteRecordError(d)
    \/ \E d \in 1..Len(archives.deletes) : deleteObjects(d)

SpecArchives == InitArchives /\ [][NextArchives]_vars

\* ------------------------------------------------------------- properties
Returned  == phase = "returned"
Succeeded == Returned /\ ~result.err

\* where downloadAndStore puts the resource of URL u served with response r
PathOf(u, r) == ObjectPath(ArchiveID, StoredName(u, StoredExt(u, r.ct)))

\* the fetches of u, and those that got a 2xx response
FetchesOf(u) == {i \in 1..Len(fetchLog) : fetchLog[i].u = u}
OkFetchesOf(u) == {i \in FetchesOf(u) : fetchLog[i].outcome = "ok"}

\* the records of an Asset list for the Original u
AssetsOf(as, u) == {i \in 1..Len(as) : as[i].Original = u}

\* the stack is exhausted only by a download nested in a download of the
\* same URL: the depth bound cuts off nothing but a cycle
OverflowOnlyOnCycle ==
    phase = "overflow" =>
        \E i, j \in 1..Len(stack) : i < j /\ stack[i].u = stack[j].u

\* C1: the Asset list Process returns holds at most one record per
\* distinct Original URL, however often the URL is referenced.
C1_OneAssetPerOriginal ==
    Succeeded =>
        \A i, j \in 1..Len(result.Assets) :
            result.Assets[i].Original = result.Assets[j].Original => i = j

\* C2: within one Process call a URL is fetched and put at most once: no
\* GET is issued for a URL after a GET of it got its 2xx response, and no
\* object path is put twice.
C2_FetchedAndStoredOnce ==
    /\ \A i, j \in 1..Len(fetchLog) :
          (i < j /\ fetchLog[i].outcome = "ok") => fetchLog[i].u # fetchLog[j].u
    /\ \A i, j \in 1..Len(putLog) : putLog[i] = putLog[j] => i = j

\* C3: Process terminates for every input: it never descends, stylesheet
\* into stylesheet, until the stack is exhausted.
C3_ProcessTerminates == phase # "overflow"

InputVal(n, k) == rawHTML[n].Attr[AttrIndex(rawHTML[n], StageKeys[k])].Val
OutputAttr(n, k) == result.HTML[n].Attr[AttrIndex(rawHTML[n], StageKeys[k])]
SingleRules == {k \in 1..Len(StageKeys) : StageKeys[k] # "srcset"}

\* C5: when every fetch of a referenced resource got a non-2xx status,
\* Process succeeds, the attribute that referenced it keeps exactly its
\* original value, and no Asset is returned for that URL.
C5_BadStatusLeavesAttribute ==
    Succeeded =>
        \A n \in 1..Len(rawHTML) : \A k \in SingleRules :
            StageApplies(rawHTML[n], k) =>
                LET h == handleURLResolve(base, InputVal(n, k)) IN
                (/\ h.go
                 /\ FetchesOf(h.u) # {}
                 /\ \A f \in FetchesOf(h.u) : fetchLog[f].outcome = "status")
                => /\ OutputAttr(n, k).Val = InputVal(n, k)
                   /\ AssetsOf(result.Assets, h.u) = {}

\* C6: a response body longer than the byte cap is a fetch failure: nothing
\* is stored for the resource and no Asset is returned for it.
C6_OversizeIsFetchFailure ==
    \A f \in 1..Len(fetchLog) :
        (fetchLog[f].outcome = "ok" /\ fetchLog[f].resp.size > LimitBytes) =>
            /\ PathOf(fetchLog[f].u, fetchLog[f].resp) \notin DOMAIN store
            /\ Succeeded => AssetsOf(result.Assets, fetchLog[f].u) = {}

\* a value that starts with data: or javascript:, or that resolves to a
\* scheme other than http(s)
NonHTTP(val) ==
    \/ HasPrefix(val, "data")
    \/ HasPrefix(val, "javascript")
    \/ /\ ParseOK(TrimSpace(val))
       /\ Parse(TrimSpace(val)).s \notin {"", "http", "https"}

\* C7: an inspected attribute whose value is a data:, javascript: or other
\* non-http(s) reference comes out of Process with the same name and the
\* same value, and no Asset is returned for it.
C7_NonHTTPUntouched ==
    Succeeded =>
        \A n \in 1..Len(rawHTML) : \A k \in 1..Len(StageKeys) :
            (StageApplies(rawHTML[n], k) /\ NonHTTP(InputVal(n, k))) =>
                /\ OutputAttr(n, k) = Attr(StageKeys[k], InputVal(n, k))
                /\ Len(rawHTML) = 1 => result.Assets = <<>>

StoredSheets ==
    {f \in 1..Len(fetchLog) :
        /\ fetchLog[f].outcome = "ok"
        /\ PathOf(fetchLog[f].u, fetchLog[f].resp) \in DOMAIN store
        /\ IsCSS(store[PathOf(fetchLog[f].u, fetchLog[f].resp)].ct,
                 StoredExt(fetchLog[f].u, fetchLog[f].resp.ct))}

UA == URL("http", "c", <<"a", ".css">>)
UB == URL("http", "c", <<"b", ".css">>)
UX == URL("http", "c", <<"x", ".png">>)
Served(u, css) ==
    \E f \in OkFetchesOf(u) :
        fetchLog[f].resp.css = css /\ PathOf(u, fetchLog[f].resp) \in DOMAIN store
LocalURL(u, ext) == ApiPath(ArchiveID, StoredPath(StoredName(u, ext)))

C9_ImportAndUrlRewritten ==
    (/\ Succeeded
     /\ Len(rawHTML) = 1 /\ rawHTML[1].Data = "link"
     /\ Served(UA, CssImport) /\ Served(UB, <<Text>>) /\ Served(UX, <<>>))
    => /\ store[ObjectPath(ArchiveID, StoredName(UA, ".css"))].css =
             << Chunk("import_url", "\"", LocalURL(UB, ".css")), Text,
                Chunk("url", "\"", LocalURL(UX, ".png")) >>
       /\ Len(result.Assets) = 3
       /\ \A u \in {UA, UB, UX} : Cardinality(AssetsOf(result.Assets, u)) = 1

\* C10: when Process returns, every object put to storage during the call
\* has exactly one Asset record in the returned list.
C10_StoredHasOneAsset ==
    Succeeded =>
        \A path \in DOMAIN store :
            Cardinality({i \in 1..Len(result.Assets) :
                ArchivePrefix(ArchiveID) \o result.Assets[i].Stored = path}) = 1

\* C11: a resource URL is attempted at most once per Process call: a URL
\* whose fetch failed is not fetched again at a later reference.
C11_SingleAttemptPerURL ==
    \A i, j \in 1..Len(fetchLog) :
        (i < j /\ fetchLog[i].outcome # "ok") => fetchLog[i].u # fetchLog[j].u

\* an img whose only attribute is a lazy-load attribute
LazyOnly(el) ==
    el.Data = "img" /\ Len(el.Attr) = 1 /\ el.Attr[1].Key \in LazyKeys

C13_DeadlineDegradesGracefully ==
    (Returned /\ doc # <<>> /\ ctx.done) =>
        /\ ~result.err
        /\ Len(putLog) = ctx.puts
        /\ \A n \in 1..Len(rawHTML) :
              n < ctx.n => result.HTML[n] = ctx.doc[n]
        /\ \A n \in 1..Len(rawHTML) : \A k \in SingleRules :
              (n > ctx.n /\ StageApplies(rawHTML[n], k)) =>
                  LET h == handleURLResolve(base, InputVal(n, k)) IN
                  (h.go /\ h.u \notin DOMAIN cache) =>
                      /\ OutputAttr(n, k) = Attr(StageKeys[k], InputVal(n, k))
                      /\ AssetsOf(result.Assets, h.u) = {}

\* what is left of C13 apart from the trimming and renaming of a failed
\* reference: after the deadline such a reference keeps its value up to
\* surrounding blanks, under its own name or src
DeadlineUpToTrimming ==
    (Returned /\ doc # <<>> /\ ctx.done) =>
        /\ ~result.err
        /\ Len(putLog) = ctx.puts
        /\ \A n \in 1..Len(rawHTML) :
              n < ctx.n => result.HTML[n] = ctx.doc[n]
        /\ \A n \in 1..Len(rawHTML) : \A k \in SingleRules :
              (n > ctx.n /\ StageApplies(rawHTML[n], k)) =>
                  LET h == handleURLResolve(base, InputVal(n, k)) IN
                  (h.go /\ h.u \notin DOMAIN cache) =>
                      /\ OutputAttr(n, k).Val = TrimSpace(InputVal(n, k))
                      /\ OutputAttr(n, k).Key \in {StageKeys[k], "src"}
                      /\ AssetsOf(result.Assets, h.u) = {}

\* the object getAsset reads when a client follows the rewritten URL of a
\* resource stored under the relative path stored
ServedObject(stored) ==
    LET r == AssetRoute(RequestPath(ApiPath(ArchiveID, stored)))
    IN getAsset(r.id, r.path)

\* C14: for every Asset of the Result, the rewritten URL
\* /api/assets/{archiveID}/{Stored} is mapped by getAsset to the object path
\* archives/{archiveID}/{Stored} at which downloadAndStore put the resource.
C14_AssetRoundTrip ==
    Succeeded =>
        \A i \in 1..Len(result.Assets) :
            /\ ServedObject(result.Assets[i].Stored) =
                  ArchivePrefix(ArchiveID) \o result.Assets[i].Stored
            /\ ServedObject(result.Assets[i].Stored) \in DOMAIN store

\* C14 on the resources whose stored name holds no "?" or "#"
RoundTripOfPlainNames ==
    Succeeded =>
        \A i \in 1..Len(result.Assets) :
            LET stored == result.Assets[i].Stored IN
            CutQuery(stored[Len(stored)]) = stored[Len(stored)] =>
                /\ ServedObject(stored) = ArchivePrefix(ArchiveID) \o stored
                /\ ServedObject(stored) \in DOMAIN store

\* ref is the local URL of the stored path the call keeps for source URL u,
\* and that path is assets/{sha1(u)}{ext}
PointsAtStored(u, ref) ==
    /\ u \in DOMAIN cache
    /\ ref = ApiPath(ArchiveID, cache[u].Stored)
    /\ \E f \in OkFetchesOf(u) :
          cache[u].Stored =
              StoredPath(StoredName(u, StoredExt(u, fetchLog[f].resp.ct)))

\* the rewritten references of the HTML: single-reference attributes and
\* srcset candidates
HtmlRefsPointAtStored ==
    /\ \A n \in 1..Len(rawHTML) : \A k \in SingleRules :
          StageApplies(rawHTML[n], k) =>
              LET h == handleURLResolve(base, InputVal(n, k)) IN
              (h.go /\ OutputAttr(n, k).Val # h.raw) =>
                  PointsAtStored(h.u, OutputAttr(n, k).Val)
    /\ \A n \in 1..Len(rawHTML) :
          StageApplies(rawHTML[n], 6) =>
              \A j \in 1..Len(SrcsetParts(InputVal(n, 6))) :
                  LET inp == SrcsetPart(InputVal(n, 6), j)
                      out == SrcsetPart(OutputAttr(n, 6).Val, j)
                      h   == handleURLResolve(base, inp.urlPart)
                  IN (~inp.skip /\ h.go /\ out.urlPart # h.raw) =>
                        PointsAtStored(h.u, out.urlPart)

\* the rewritten references of the stored stylesheets, of the given forms
CssRefsPointAtStored(forms) ==
    \A f \in StoredSheets :
        LET u   == fetchLog[f].u
            in  == fetchLog[f].resp.css
            out == store[PathOf(u, fetchLog[f].resp)].css
        IN \A i \in 1..Len(in) :
              (/\ in[i].form \in forms
               /\ replaceFnResolve(u, in[i].ref).go
               /\ out[i] # in[i])
              => PointsAtStored(replaceFnResolve(u, in[i].ref).u, out[i].ref)

\* C15: within one Process call every rewritten reference to a source URL,
\* in an HTML attribute, a srcset candidate or a stylesheet, points at the
\* one stored path of that URL, assets/{sha1(sourceURL)}{ext}.
C15_SameStoredPath ==
    Succeeded =>
        /\ HtmlRefsPointAtStored
        /\ CssRefsPointAtStored({"url", "import_url", "import_str"})

\* C15 without the @import url(...) references
SameStoredPathButImportURL ==
    Succeeded =>
        /\ HtmlRefsPointAtStored
        /\ CssRefsPointAtStored({"url", "import_str"})

Range(q) == {q[i] : i \in 1..Len(q)}

\* the references invocation c has handled so far
PairHandled(c) == {calls[c].refs[j] : j \in 1..(calls[c].i - 1)}

\* C16: two Process invocations for different archives share no dedup
\* state: each fetches itself every URL it references, the cache of each
\* holds only what it fetched and stored itself, and the two never write
\* the same object path.
C16_InvocationsShareNothing ==
    /\ \A c \in 1..2 :
          /\ PairHandled(c) \subseteq Range(calls[c].fetched)
          /\ \A u \in DOMAIN calls[c].cache :
                /\ u \in Range(calls[c].fetched)
                /\ ArchivePrefix(calls[c].id) \o calls[c].cache[u].Stored
                      \in Range(calls[c].puts)
    /\ Range(calls[1].puts) \cap Range(calls[2].puts) = {}

\* both invocations have run to their end and each has fetched and stored
\* the same source URL
C16_Witness ==
    /\ \A c \in 1..2 : calls[c].i > Len(calls[c].refs)
    /\ \E u \in PairURLs : \A c \in 1..2 :
          u \in Range(calls[c].fetched) /\ u \in DOMAIN calls[c].cache
    /\ Cardinality(DOMAIN store) >= 2

\* C17: Process called with empty rawHTML returns an error and no Result,
\* and has made no fetch and no storage put.
C17_EmptyInputIsAnError ==
    (Returned /\ rawHTML = <<>>) =>
        /\ result = [err |-> TRUE, HTML |-> <<>>, Assets |-> <<>>]
        /\ fetchLog = <<>> /\ putLog = <<>> /\ store = <<>>

C17_Witness == Returned /\ rawHTML = <<>> /\ result.err /\ pageURL = PageURL

LazyRules == {k \in 1..Len(StageKeys) : StageKeys[k] \in LazyKeys}

\* C18: a lazy-load attribute of an img is renamed to src only when its
\* resource was resolved, fetched and stored; otherwise (resolution or
\* fetch failed, or a data:/javascript:/non-http(s) value) it keeps its
\* original name and its original value.
C18_LazyRenamedOnlyOnSuccess ==
    Succeeded =>
        \A n \in 1..Len(rawHTML) : \A k \in LazyRules :
            StageApplies(rawHTML[n], k) =>
                LET h == handleURLResolve(base, InputVal(n, k)) IN
                OutputAttr(n, k) # Attr(StageKeys[k], InputVal(n, k)) =>
                    /\ h.go
                    /\ OutputAttr(n, k).Key = "src"
                    /\ PointsAtStored(h.u, OutputAttr(n, k).Val)

\* the lazy-load rules of an element that come after its first one
LaterLazyRules(el) ==
    {k \in LazyRules :
        /\ StageApplies(el, k)
        /\ \E j \in LazyRules : j < k /\ StageApplies(el, j)}

\* C19: of several lazy-load attributes on one img only the first present,
\* in the order data-src, data-original, data-lazy-src, data-lazy, is
\* handled: a later one comes out as it went in and its resource is not
\* fetched.
C19_FirstLazyAttributeWins ==
    (Succeeded /\ Len(rawHTML) = 1) =>
        \A k \in LaterLazyRules(rawHTML[1]) :
            /\ OutputAttr(1, k) = Attr(StageKeys[k], InputVal(1, k))
            /\ FetchesOf(handleURLResolve(base, InputVal(1, k)).u) = {}

\* C20: no element of the document Process returns carries more than one
\* src attribute.
C20_AtMostOneSrc ==
    Succeeded =>
        \A n \in 1..Len(result.HTML) :
            Cardinality({i \in 1..Len(result.HTML[n].Attr) :
                            result.HTML[n].Attr[i].Key = "src"}) <= 1

\* a URL whose path is a local asset path /api/assets/...: what resolving an
\* already rewritten reference against the stylesheet's URL gives
IsLocalAssetURL(u) == Len(u.p) >= 2 /\ u.p[1] = "api" /\ u.p[2] = "assets"

\* C21: the @import pass of rewriteCSS does not process again a reference
\* the url() pass has rewritten to a local asset path: no GET is ever issued
\* for a URL made by resolving /api/assets/... against a stylesheet's URL
\* (the second downloadAndStore call for one @import url(...) reference is
\* the call that would issue it).
C21_RewrittenNotReprocessed ==
    \A i \in 1..Len(fetchLog) : ~IsLocalAssetURL(fetchLog[i].u)

\* a.css as stored, and has some GET of u failed
StoredA == store[ObjectPath(ArchiveID, StoredName(UA, ".css"))].css
FetchFailed(u) == \E g \in FetchesOf(u) : fetchLog[g].outcome # "ok"

\* a page whose one element links a.css = @import url('b.css'); url("x.png"),
\* fetched once and stored; b.css, where it is fetched, holds no reference
PartialFailureCase ==
    /\ Succeeded
    /\ Len(rawHTML) = 1 /\ rawHTML[1].Data = "link"
    /\ Served(UA, CssImport) /\ Cardinality(FetchesOf(UA)) = 1
    /\ \A g \in OkFetchesOf(UB) : fetchLog[g].resp.css = <<Text>>

\* C22: in a stylesheet, a reference whose fetch or storage fails keeps its
\* original text and yields no Asset; the other references of the
\* stylesheet are still rewritten, and the stylesheet is stored and
\* recorded as an Asset.
C22_CssPartialFailure ==
    PartialFailureCase =>
        /\ \A r \in {<<1, UB>>, <<3, UX>>} :
              IF FetchFailed(r[2]) \/ r[2] \notin DOMAIN cache
              THEN /\ StoredA[r[1]] = CssImport[r[1]]
                   /\ AssetsOf(result.Assets, r[2]) = {}
              ELSE /\ StoredA[r[1]] # CssImport[r[1]]
                   /\ StoredA[r[1]].ref[1].p[1] = "api"
        /\ StoredA[2] = Text
        /\ Cardinality(AssetsOf(result.Assets, UA)) = 1

\* C22 where failing means that the reference's resource was stored by no
\* attempt of the call: a reference that failed in the url() pass and is
\* fetched again by the @import pass counts as processed
PartialFailureUpToRetry ==
    PartialFailureCase =>
        /\ \A r \in {<<1, UB>>, <<3, UX>>} :
              IF r[2] \notin DOMAIN cache
              THEN /\ StoredA[r[1]] = CssImport[r[1]]
                   /\ AssetsOf(result.Assets, r[2]) = {}
              ELSE /\ StoredA[r[1]] # CssImport[r[1]]
                   /\ StoredA[r[1]].ref[1].p[1] = "api"
        /\ StoredA[2] = Text
        /\ Cardinality(AssetsOf(result.Assets, UA)) = 1

\* a reference of a.css has failed and the other one was rewritten
PartialFailureSeen ==
    /\ PartialFailureCase
    /\ UX \notin DOMAIN cache /\ FetchFailed(UX)
    /\ UB \in DOMAIN cache

\* the successful puts of the object of u, and whether a put of u failed:
\* once Process has returned, every 2xx fetch was followed by one PutBytes
PutsOf(u) ==
    {i \in 1..Len(putLog) :
        \E f \in OkFetchesOf(u) : putLog[i] = PathOf(u, fetchLog[f].resp)}
PutFailed(u) == Cardinality(OkFetchesOf(u)) > Cardinality(PutsOf(u))

FetchedURLs == {fetchLog[i].u : i \in 1..Len(fetchLog)}

\* the reference is a local asset path /api/assets/...
IsLocalRef(ref) ==
    Len(ref) = 1 /\ ref[1].t = "atom" /\ IsLocalAssetURL(Parse(ref))

\* no single-reference attribute that refers to u was rewritten to a local
\* asset path
AttrsLeftUnrewritten(u) ==
    \A n \in 1..Len(rawHTML) : \A k \in SingleRules :
        (/\ StageApplies(rawHTML[n], k)
         /\ handleURLResolve(base, InputVal(n, k)).go
         /\ handleURLResolve(base, InputVal(n, k)).u = u)
        => ~IsLocalRef(OutputAttr(n, k).Val)

\* no reference to u in a stored stylesheet was rewritten
CssLeftUnrewritten(u) ==
    \A f \in StoredSheets :
        LET s   == fetchLog[f].u
            in  == fetchLog[f].resp.css
            out == store[PathOf(s, fetchLog[f].resp)].css
        IN \A i \in 1..Len(in) :
              (/\ in[i].form # "text"
               /\ replaceFnResolve(s, in[i].ref).go
               /\ replaceFnResolve(s, in[i].ref).u = u)
              => out[i] = in[i]

\* C23: when the put of a fetched resource fails, the resource is skipped:
\* the attributes and CSS references that refer to it are not rewritten, no
\* Asset is returned for it, the cache holds no entry for it, and Process
\* goes on to return its Result.
C23_PutFailureSkipsResource ==
    Succeeded =>
        \A u \in FetchedURLs :
            PutFailed(u) =>
                /\ u \notin DOMAIN cache
                /\ AssetsOf(result.Assets, u) = {}
                /\ AttrsLeftUnrewritten(u)
                /\ CssLeftUnrewritten(u)

\* C23 for a resource that is requested once: without a second attempt the
\* failed put leaves no cache entry, no Asset and no rewritten reference
PutFailureWithoutRetry ==
    Succeeded =>
        \A u \in FetchedURLs :
            (PutFailed(u) /\ Cardinality(FetchesOf(u)) = 1) =>
                /\ u \notin DOMAIN cache
                /\ AssetsOf(result.Assets, u) = {}
                /\ AttrsLeftUnrewritten(u)
                /\ CssLeftUnrewritten(u)

PutFailureSeen ==
    Succeeded /\ \E u \in FetchedURLs :
        PutFailed(u) /\ Cardinality(FetchesOf(u)) = 1 /\ Len(putLog) > 0

\* the URLs the references of the HTML resolve to, against the page URL
HtmlRefURLs ==
    UNION {
        {handleURLResolve(base, InputVal(n, k)).u :
            k \in {j \in SingleRules : StageApplies(rawHTML[n], j)}}
        \cup
        (IF StageApplies(rawHTML[n], 6)
         THEN {handleURLResolve(base, SrcsetPart(InputVal(n, 6), j).urlPart).u :
                  j \in 1..Len(SrcsetParts(InputVal(n, 6)))}
         ELSE {})
        : n \in 1..Len(rawHTML)}

\* the stylesheets fetched so far, as (URL, body) pairs
FetchedSheets ==
    {<<fetchLog[f].u, fetchLog[f].resp.css>> :
        f \in {g \in 1..Len(fetchLog) :
                  /\ fetchLog[g].outcome = "ok"
                  /\ IsCSS(GuessContentType(
                               StoredName(fetchLog[g].u,
                                   StoredExt(fetchLog[g].u, fetchLog[g].resp.ct)),
                               fetchLog[g].resp.ct),
                           StoredExt(fetchLog[g].u, fetchLog[g].resp.ct))}}

\* resolve(cssURL, ref) for the references of the fetched stylesheets, as
\* fetched or as rewritten to a local asset path by the url() pass
CssRefURLs ==
    UNION {
        {replaceFnResolve(s[1], s[2][i].ref).u : i \in 1..Len(s[2])}
        \cup {v \in FetchedURLs :
                 IsLocalAssetURL(v) /\ v.s = s[1].s /\ v.h = s[1].h}
        : s \in FetchedSheets}

\* C24: a relative reference inside a stylesheet is resolved against the
\* stylesheet's own URL, never against the page URL: every URL fetched and
\* every Original recorded is a reference of the HTML resolved against the
\* page URL or resolve(cssURL, ref) for a reference of a fetched
\* stylesheet, and each reference of a stored stylesheet was looked up
\* under resolve(cssURL, ref).
C24_CssRefsResolveAgainstSheet ==
    /\ FetchedURLs \subseteq HtmlRefURLs \cup CssRefURLs
    /\ Succeeded =>
          {result.Assets[i].Original : i \in 1..Len(result.Assets)}
              \subseteq HtmlRefURLs \cup CssRefURLs
    /\ \A f \in StoredSheets : \A i \in 1..Len(fetchLog[f].resp.css) :
          LET c == fetchLog[f].resp.css[i]
              h == replaceFnResolve(fetchLog[f].u, c.ref)
          IN (c.form # "text" /\ h.go) => h.u \in FetchedURLs

\* a.css on host c, linked from a page on host p, refers to x.png: the
\* image is fetched from c, recorded under that URL, and never asked of p
C24_Witness ==
    /\ Succeeded /\ pageURL = PageURL
    /\ Len(rawHTML) = 1 /\ rawHTML[1].Data = "link"
    /\ Served(UA, CssImport)
    /\ OkFetchesOf(UX) # {}
    /\ AssetsOf(result.Assets, UX) # {}
    /\ FetchesOf(URL("http", "p", <<"x", ".png">>)) = {}

\* the tokens, each with a blank before it
RECURSIVE Spaced(_)
Spaced(toks) ==
    IF toks = <<>> THEN <<>> ELSE <<SP, Head(toks)>> \o Spaced(Tail(toks))

\* the candidates of a srcset value: its comma-separated pieces that hold
\* anything but blanks, in order
Candidates(raw) ==
    SelectSeq(Split(raw, Comma), LAMBDA part : Fields(part) # <<>>)

\* a candidate's URL and its descriptor, the tokens after the URL
CandidateURL(part) == <<Fields(part)[1]>>
CandidateDescriptor(part) == Tail(Fields(part))

\* the candidate as it is written back: URL, then the descriptor
Rejoined(url, part) == url \o Spaced(CandidateDescriptor(part))

\* C25: the candidates of an img srcset are handled one by one: each comes
\* out with its descriptor as it was, and with its URL rewritten to the
\* local path of its stored resource or, when that one candidate failed or
\* is not an http(s) reference, with its original URL; a candidate whose
\* resource can be fetched is rewritten when nothing failed; the candidates
\* stay in their order and are rejoined with ", ".
C25_SrcsetCandidates ==
    Succeeded =>
        \A n \in 1..Len(rawHTML) :
            StageApplies(rawHTML[n], 6) =>
                LET in  == Candidates(InputVal(n, 6))
                    out == Candidates(OutputAttr(n, 6).Val)
                IN IF in = <<>> THEN OutputAttr(n, 6).Val = InputVal(n, 6)
                   ELSE /\ Len(out) = Len(in)
                        /\ OutputAttr(n, 6).Val =
                              Join([j \in 1..Len(out) |->
                                       Rejoined(CandidateURL(out[j]), in[j])],
                                   <<Comma, SP>>)
                        /\ \A j \in 1..Len(in) :
                              LET h == handleURLResolve(base, CandidateURL(in[j]))
                              IN /\ \/ CandidateURL(out[j]) = CandidateURL(in[j])
                                    \/ h.go /\ PointsAtStored(h.u, CandidateURL(out[j]))
                                 /\ (h.go /\ faults = 0 /\ Web(h.u) # {}) =>
                                       PointsAtStored(h.u, CandidateURL(out[j]))

\* of two candidates the first failed and kept its URL, the second was
\* rewritten, and each kept its descriptor
C25_Witness ==
    /\ Succeeded
    /\ \E n \in 1..Len(rawHTML) :
          /\ StageApplies(rawHTML[n], 6)
          /\ InputVal(n, 6) = Srcset2
          /\ LET out == Candidates(OutputAttr(n, 6).Val) IN
             /\ Len(out) = 2
             /\ CandidateURL(out[1]) = CandidateURL(Candidates(Srcset2)[1])
             /\ IsLocalRef(CandidateURL(out[2]))
             /\ CandidateDescriptor(out[1]) = <<Desc("1x")>>
             /\ CandidateDescriptor(out[2]) = <<Desc("2x")>>

\* the rel value of a link names a stylesheet or an icon, in any case
RelSelects(el) ==
    \E i \in 1..Len(el.Attr) :
        /\ el.Attr[i].Key = "rel"
        /\ \E j \in 1..Len(el.Attr[i].Val) :
              el.Attr[i].Val[j].p \in
                  {<<"stylesheet">>, <<"Stylesheet">>, <<"icon">>}

\* the elements whose references Process looks at
Inspected(el) ==
    \/ el.Data \in {"img", "source", "video", "audio", "script"}
    \/ el.Data = "link" /\ RelSelects(el)

\* C26: Process fetches and rewrites the href of a link only if its rel
\* holds "stylesheet" or "icon" in any case; a link with another rel and an
\* element that is not img, source, video, audio, script or link comes out
\* with its attributes unchanged, and a document of such elements alone
\* causes no fetch.
C26_OnlyGatedElementsTouched ==
    /\ (\A n \in 1..Len(rawHTML) : ~Inspected(rawHTML[n])) => fetchLog = <<>>
    /\ Succeeded =>
          \A n \in 1..Len(rawHTML) :
              /\ ~Inspected(rawHTML[n]) => result.HTML[n] = rawHTML[n]
              /\ (rawHTML[n].Data = "link" /\ RelSelects(rawHTML[n])) =>
                    LET h == handleURLResolve(base, InputVal(n, 7))
                    IN h.go => FetchesOf(h.u) # {}

\* a capture of a link rel="alternate" and a link rel="Stylesheet" to the
\* same a.css: the first is left alone, the second rewritten
C26_Witness ==
    /\ Succeeded /\ Len(rawHTML) = 2
    /\ rawHTML[1].Data = "link" /\ ~RelSelects(rawHTML[1])
    /\ result.HTML[1] = rawHTML[1]
    /\ rawHTML[2].Data = "link" /\ RelSelects(rawHTML[2])
    /\ IsLocalRef(OutputAttr(2, 7).Val)

\* the extension the stored file of u should carry: that of the URL path,
\* else the one guessed from the declared Content-Type, else .bin
ExpectedExt(u, declared) ==
    IF u.p[Len(u.p)] # "" THEN u.p[Len(u.p)]
    ELSE IF mimeExtensions(declared) # "" THEN mimeExtensions(declared)
    ELSE ".bin"

\* the content type that should be recorded: that of the extension when it
\* is known, else the declared one unless blank, else application/octet-stream
ExpectedType(ext, declared) ==
    IF TypeByExtension(ext) # "" THEN TypeByExtension(ext)
    ELSE IF declared \notin {"", " "} THEN declared
    ELSE "application/octet-stream"

\* C27: every stored object and every Asset carries the extension and the
\* content type that follow from its URL and the Content-Type its server
\* declared: extension from the URL path, else from the declared type,
\* else .bin; type from the extension when known, else the declared type
\* when not blank, else application/octet-stream.
C27_ExtensionAndContentType ==
    /\ \A path \in DOMAIN store :
          \E f \in 1..Len(fetchLog) :
              LET u   == fetchLog[f].u
                  dec == fetchLog[f].resp.ct
                  ext == ExpectedExt(u, dec)
              IN /\ fetchLog[f].outcome = "ok"
                 /\ path = <<"archives", ArchiveID, "assets">> \o Sha1(u) \o <<ext>>
                 /\ store[path].ct = ExpectedType(ext, dec)
    /\ Succeeded =>
          \A i \in 1..Len(result.Assets) :
              \E f \in OkFetchesOf(result.Assets[i].Original) :
                  LET u   == fetchLog[f].u
                      dec == fetchLog[f].resp.ct
                      ext == ExpectedExt(u, dec)
                  IN /\ result.Assets[i].Stored = <<"assets">> \o Sha1(u) \o <<ext>>
                     /\ result.Assets[i].Type = ExpectedType(ext, dec)

\* http://p/raw, declared text/plain, is stored as <sha1>.bin with the
\* declared type
C27_Witness ==
    /\ Succeeded
    /\ \E i \in 1..Len(result.Assets) :
          /\ result.Assets[i].Original = Parse(NoExtAbs)
          /\ result.Assets[i].Stored[Len(result.Assets[i].Stored)] = ".bin"
          /\ result.Assets[i].Type = "text/plain"

\* the runs whose goroutine has not exited, and those still in their body
ActiveRuns == {r \in 1..Len(analyze.runs) : analyze.runs[r].pc # "exited"}
RunsInBody == {r \in 1..Len(analyze.runs) : analyze.runs[r].pc = "run"}

\* C28: at most one runAnalyzerOnce goroutine is active at any time, under
\* every interleaving of startAnalysis, stopAnalysis and the runs' exits.
C28_AtMostOneRun == Cardinality(ActiveRuns) <= 1

\* C29: while a run is in its body and has not been cancelled, Running is
\* true and analyzeCancel is that run's cancel function; the exit of an
\* earlier run never resets them.
C29_StatusFollowsActiveRun ==
    \A r \in RunsInBody :
        ~analyze.runs[r].cancelled =>
            analyze.Running /\ analyze.analyzeCancel = r

\* C30: under any interleaving of createArchive and deleteArchive requests
\* an Archive record exists only if the put of index.html of its archive
\* succeeded: a createArchive whose Process or put of index.html failed has
\* made no record, and a deleteArchive that has reached the removal of the
\* objects has removed the record before.
C30_RecordOnlyWithStoredDocument ==
    /\ \A id \in archives.records : htmlObject(id) \in Range(putLog)
    /\ \A id \in ArchiveIDs :
          archives.creates[id] = "failed" => id \notin archives.records
    /\ \A d \in 1..Len(archives.deletes) :
          archives.deletes[d].pc \in {"remove", "done"}
              => archives.deletes[d].id \notin archives.records

\* one archive was created and deleted, its objects removed, while the
\* other was created and its record stands; a put has failed on the way
C30_Witness ==
    /\ archives.records = {"id2"}
    /\ archives.creates["id1"] = "done"
    /\ \E d \in 1..Len(archives.deletes) :
          archives.deletes[d] = DeleteRequest("id1", "done")
    /\ UnderPrefix(store, ArchivePrefix("id1")) = {}
    /\ htmlObject("id2") \in DOMAIN store

====
